---------------------------- MODULE Spec2Model ----------------------------
(***************************************************************************)
(* A model of copyright_generator.py: the year/author heuristic parser,    *)
(* the per-ecosystem collectors, the thirdparty folder scanner, the merge  *)
(* store (license_meta_file_dictionary) and the Debian copyright           *)
(* serializer.                                                             *)
(*                                                                         *)
(* Text is a sequence of one-character strings.  A path is a sequence of   *)
(* path segments.                                                          *)
(***************************************************************************)
EXTENDS Integers, Sequences, FiniteSets, TLC

VARIABLES
    pc,           \* position of main(): the stage that runs next
    declaration,  \* keys present in the project declaration file (.copyright)
    env,          \* collectors that are enabled and whose tool and marker file exist
    fs,           \* the folders the scanner walks: folder -> [meta, files]
    store,        \* license_meta_file_dictionary, in insertion order
    insertLog,    \* history: every dictionary assignment, in program order
    stageLog,     \* history: the stages that have run, in program order
    log,          \* the diagnostics logged so far
    work,         \* folder_path_list
    scanLog,      \* history: one record per folder the scanner has handled
    out,          \* the manifest written to the output file, or NotWritten
    input,        \* the argument of the parser operation under study
    called,       \* the parser operation that was applied to it
    ret           \* what that operation returned

vars == <<pc, declaration, env, fs, store, insertLog, stageLog, log, work,
          scanLog, out, input, called, ret>>

(***************************************************************************)
(* Bounds of the model.                                                    *)
(***************************************************************************)
MaxTail == 3      \* characters after the leading word of a generated line
MaxTokens == 3    \* tokens of a generated year text
MaxPkgs == 2      \* packages in one scanner report
MaxActive == 2    \* collectors applicable in one run
MaxChildren == 2  \* immediate children of the thirdparty directory

\* Python's None.  A text holds one-character strings only, so this is no text.
None == <<"None">>

(***************************************************************************)
(* Characters and Python's str methods.                                    *)
(***************************************************************************)
Whitespace == {" ", "\t", "\n", "\r"}
Digits == <<"0", "1", "2", "3", "4", "5", "6", "7", "8", "9">>
UpperCase == <<"A","B","C","D","E","F","G","H","I","J","K","L","M",
               "N","O","P","Q","R","S","T","U","V","W","X","Y","Z">>
LowerCase == <<"a","b","c","d","e","f","g","h","i","j","k","l","m",
               "n","o","p","q","r","s","t","u","v","w","x","y","z">>


\* U+00B2 SUPERSCRIPT TWO, spelled in ASCII: one of the characters for which
\* str.isdigit() is True and int() raises ValueError.
SuperscriptTwo == "^2"

\* The characters int() converts.
isdecimal(c) == \E i \in 1..Len(Digits) : Digits[i] = c

isdigit(c) == isdecimal(c) \/ c = SuperscriptTwo

isalpha(c) == \/ \E i \in 1..Len(UpperCase) : UpperCase[i] = c
              \/ \E i \in 1..Len(LowerCase) : LowerCase[i] = c

DigitValue(c) == (CHOOSE i \in 1..Len(Digits) : Digits[i] = c) - 1

lowerChar(c) ==
    IF \E i \in 1..Len(UpperCase) : UpperCase[i] = c
    THEN LowerCase[CHOOSE i \in 1..Len(UpperCase) : UpperCase[i] = c]
    ELSE c

lower(s) == [i \in 1..Len(s) |-> lowerChar(s[i])]

startswith(s, p) == Len(s) >= Len(p) /\ SubSeq(s, 1, Len(p)) = p

RECURSIVE lstrip(_)
lstrip(s) == IF s # <<>> /\ Head(s) \in Whitespace THEN lstrip(Tail(s)) ELSE s

RECURSIVE rstrip(_)
rstrip(s) ==
    IF s # <<>> /\ s[Len(s)] \in Whitespace
    THEN rstrip(SubSeq(s, 1, Len(s) - 1))
    ELSE s

strip(s) == rstrip(lstrip(s))

\* The position of the first occurrence of the text p in s at or after i, or 0.
RECURSIVE find(_, _, _)
find(s, p, i) ==
    IF i + Len(p) - 1 > Len(s) THEN 0
    ELSE IF SubSeq(s, i, i + Len(p) - 1) = p THEN i
    ELSE find(s, p, i + 1)

\* str.split(sep, maxsplit) for a non-empty separator.
RECURSIVE split(_, _, _)
split(s, sep, maxsplit) ==
    LET i == find(s, sep, 1) IN
    IF maxsplit = 0 \/ i = 0 THEN <<s>>
    ELSE <<SubSeq(s, 1, i - 1)>>
         \o split(SubSeq(s, i + Len(sep), Len(s)), sep, maxsplit - 1)

\* str.replace(old, new): every non-overlapping occurrence, left to right.
RECURSIVE replace(_, _, _)
replace(s, old, new) ==
    LET i == find(s, old, 1) IN
    IF i = 0 THEN s
    ELSE SubSeq(s, 1, i - 1) \o new
         \o replace(SubSeq(s, i + Len(old), Len(s)), old, new)

\* sep.join(parts)
RECURSIVE join(_, _)
join(sep, parts) ==
    IF parts = <<>> THEN <<>>
    ELSE IF Len(parts) = 1 THEN parts[1]
    ELSE parts[1] \o sep \o join(sep, Tail(parts))

\* file.readlines(): the lines of the text, each keeping its line feed.
RECURSIVE readlines(_)
readlines(s) ==
    LET i == find(s, <<"\n">>, 1) IN
    IF s = <<>> THEN <<>>
    ELSE IF i = 0 THEN <<s>>
    ELSE <<SubSeq(s, 1, i)>> \o readlines(SubSeq(s, i + 1, Len(s)))

\* int(s) raises ValueError: s is empty or holds a character that is no
\* decimal digit.
int_raises(s) == s = <<>> \/ \E i \in 1..Len(s) : ~isdecimal(s[i])

\* int(s) for a text of decimal digits.
RECURSIVE int(_)
int(s) == IF s = <<>> THEN 0
          ELSE 10 * int(SubSeq(s, 1, Len(s) - 1)) + DigitValue(s[Len(s)])

EscapedNewline == <<"\\", "n">>
Newline == <<"\n">>

\* The words the program compares text with.
copyright_word == <<"c","o","p","y","r","i","g","h","t">>
Copyright_word == <<"C","o","p","y","r","i","g","h","t">>
CopyrightPrefix == Copyright_word \o <<":", " ">>
CopyrightBare == Copyright_word \o <<":">>

(***************************************************************************)
(* The year/author heuristic parser.                                       *)
(***************************************************************************)
\* The content of a license file path at which no file exists (no text).
NoFile == <<"NoFile">>

\* One line of parse_license_file_copyright_lines: the fragments it appends.
SplitLineOnOneParen(line) == split(line, <<")">>, 1)

copyright_line_split(line) == split(line, <<")">>, 2)

copyright_line_fragments(line) ==
    IF startswith(lower(strip(line)), copyright_word)
    THEN LET line_split == copyright_line_split(line) IN
         IF Len(line_split) = 2
         THEN <<strip(line_split[Len(line_split)])>>
         ELSE <<>>
    ELSE <<>>

RECURSIVE copyright_lines_of(_)
copyright_lines_of(lines) ==
    IF lines = <<>> THEN <<>>
    ELSE copyright_line_fragments(Head(lines)) \o copyright_lines_of(Tail(lines))

parse_license_file_copyright_lines(file) == copyright_lines_of(readlines(file))

\* The scan loop of parse_copyright_years from character i on; st holds
\* year_string_list, can_read_year_number and current_year_number.
RECURSIVE scan_years(_, _, _)
scan_years(s, i, st) ==
    IF i > Len(s) THEN st.year_string_list
    ELSE IF isdigit(s[i])
    THEN LET can_read == IF Len(st.current_year_number) > 4
                         THEN FALSE
                         ELSE st.can_read_year_number
         IN scan_years(s, i + 1,
                [st EXCEPT !.can_read_year_number = can_read,
                           !.current_year_number =
                               IF can_read THEN @ \o <<s[i]>> ELSE @])
    ELSE scan_years(s, i + 1,
            [year_string_list |->
                 IF Len(st.current_year_number) = 4
                 THEN Append(st.year_string_list, st.current_year_number)
                 ELSE st.year_string_list,
             can_read_year_number |-> TRUE,
             current_year_number |-> <<>>])

CurrentYear == 2026   \* datetime.datetime.now().year

\* One pass of the validity loop: the conversion is inside try/except, and an
\* exception leaves all_years_valid as it is.
year_is_valid(year) ==
    IF int_raises(year) THEN TRUE
    ELSE ~(int(year) < 1900 \/ int(year) > CurrentYear)

parse_copyright_years(string) ==
    LET year_string_list ==
            scan_years(replace(string, EscapedNewline, Newline), 1,
                       [year_string_list |-> <<>>,
                        can_read_year_number |-> TRUE,
                        current_year_number |-> <<>>])
        all_years_valid ==
            \A k \in 1..Len(year_string_list) : year_is_valid(year_string_list[k])
    IN <<year_string_list, all_years_valid>>

\* The guard of the second attempt of
\* parse_project_author_year_and_project_year_from_license.
YearAttemptAlways(project_author_year_string, project_year_string) == TRUE

year_attempt_guard(project_author_year_string, project_year_string) ==
    project_year_string = None /\ project_author_year_string = None

parse_project_author_year_and_project_year_from_license(license_file) ==
    IF license_file = NoFile THEN <<None, None>>
    ELSE LET copyright_lines == parse_license_file_copyright_lines(license_file)
             project_author_year_string ==
                 IF Len(copyright_lines) > 0
                 THEN join(<<",", " ">>, copyright_lines)
                 ELSE None
             parsed == parse_copyright_years(license_file)
             project_year_string ==
                 IF /\ year_attempt_guard(project_author_year_string, None)
                    /\ Len(parsed[1]) > 0 /\ parsed[2]
                 THEN join(<<"-">>, parsed[1])
                 ELSE None
         IN <<project_author_year_string, project_year_string>>

(***************************************************************************)
(* The parser operations on their own: the license file is drawn from a    *)
(* bounded set of texts and one operation is applied to it.                *)
(***************************************************************************)
\* Texts over a small alphabet, of bounded length.
RECURSIVE TextsUpTo(_, _)
TextsUpTo(alphabet, n) ==
    IF n = 0 THEN {<<>>}
    ELSE LET shorter == TextsUpTo(alphabet, n - 1) IN
         shorter \cup {Append(t, c) : t \in shorter, c \in alphabet}

\* Concatenations of at most n of the given tokens.
RECURSIVE TokenTexts(_, _)
TokenTexts(tokens, n) ==
    IF n = 0 THEN {<<>>}
    ELSE LET shorter == TokenTexts(tokens, n - 1) IN
         shorter \cup {t \o k : t \in shorter, k \in tokens}

LeadingWords ==
    { Copyright_word,
      <<"C","O","P","Y","R","I","G","H","T">>,
      <<"C","o","p","y">>,
      <<"L">> }

GeneratedLines ==
    { lead \o word \o tail \o nl :
        lead \in {<<>>, <<" ">>},
        word \in LeadingWords,
        tail \in TextsUpTo({")", "(", " ", "J"}, MaxTail),
        nl \in {<<>>, Newline} }

YearTokens ==
    { <<"2","0","1","9">>, <<"2","0","2","1">>, <<"1","8","9","9">>,
      <<"2","0","3","0">>, <<"1","2","3","4","5">>, <<"1","2","3">>,
      <<SuperscriptTwo, SuperscriptTwo, SuperscriptTwo, SuperscriptTwo>>,
      <<"-">>, <<" ">>, <<"X">>, EscapedNewline }

YearTexts ==
    { prefix \o t :
        prefix \in {<<>>, Copyright_word \o <<" ">>},
        t \in TokenTexts(YearTokens, MaxTokens) }

\* "Copyright (c) 2020 Jane Doe"
JaneDoeLine ==
    Copyright_word \o <<" ","(","c",")"," ","2","0","2","0"," ",
                        "J","a","n","e"," ","D","o","e">>
\* "Copyright (c) 2019 (r) Acme": two closing parentheses
TwoParenLine ==
    Copyright_word \o <<" ","(","c",")"," ","2","0","1","9"," ",
                        "(","r",")"," ","A","c","m","e">>
\* "  copyright (C) 2021 Bob  ": indented, lower case
BobLine ==
    <<" "," ">> \o copyright_word \o <<" ","(","C",")"," ","2","0","2","1",
                                       " ","B","o","b"," "," ">>
\* "MIT License 2019 ": no copyright line, one year
MitLine ==
    <<"M","I","T"," ","L","i","c","e","n","s","e"," ","2","0","1","9"," ">>

\* "Copyright 2019-2021 X"
ValidRangeLine ==
    Copyright_word \o <<" ","2","0","1","9","-","2","0","2","1"," ","X">>
\* "Copyright 1899-2030 X"
InvalidRangeLine ==
    Copyright_word \o <<" ","1","8","9","9","-","2","0","3","0"," ","X">>

ExampleLines ==
    {JaneDoeLine, TwoParenLine, BobLine, MitLine, ValidRangeLine, InvalidRangeLine}

ExampleTexts ==
    { a \o Newline \o b \o nl :
        a \in ExampleLines, b \in ExampleLines, nl \in {<<>>, Newline} }
    \cup { a \o nl : a \in ExampleLines, nl \in {<<>>, Newline} }

LicenseTexts == GeneratedLines \cup YearTexts \cup ExampleTexts

\* The output file before main() opens it.
NotWritten == [written |-> FALSE, header |-> {}, stanzas |-> <<>>]

ParserInit ==
    /\ pc = "parser"
    /\ declaration = {}
    /\ env = {}
    /\ fs = <<>>
    /\ store = <<>>
    /\ insertLog = <<>>
    /\ stageLog = <<>>
    /\ log = <<>>
    /\ work = <<>>
    /\ scanLog = <<>>
    /\ out = NotWritten
    /\ input \in LicenseTexts \cup {NoFile}
    /\ called = "none"
    /\ ret = None

PipelineUnchanged ==
    UNCHANGED <<pc, declaration, env, fs, store, insertLog, stageLog, log,
                work, scanLog, out>>

\* parse_license_file_copyright_lines applied to an existing file.
ApplyCopyrightLines ==
    /\ pc = "parser" /\ called = "none" /\ input # NoFile
    /\ called' = "parse_license_file_copyright_lines"
    /\ ret' = parse_license_file_copyright_lines(input)
    /\ UNCHANGED input /\ PipelineUnchanged

\* parse_copyright_years applied to the content of an existing file.
ApplyCopyrightYears ==
    /\ pc = "parser" /\ called = "none" /\ input # NoFile
    /\ called' = "parse_copyright_years"
    /\ ret' = parse_copyright_years(input)
    /\ UNCHANGED input /\ PipelineUnchanged

\* parse_project_author_year_and_project_year_from_license applied to a path.
ApplyAuthorYearAndYear ==
    /\ pc = "parser" /\ called = "none"
    /\ called' = "parse_project_author_year_and_project_year_from_license"
    /\ ret' = parse_project_author_year_and_project_year_from_license(input)
    /\ UNCHANGED input /\ PipelineUnchanged

ParserNext == ApplyCopyrightLines \/ ApplyCopyrightYears \/ ApplyAuthorYearAndYear

SpecParser == ParserInit /\ [][ParserNext]_vars

(***************************************************************************)
(* C9: parse_license_file_copyright_lines returns, in line order, one      *)
(* fragment for exactly the lines whose trimmed, lower-cased form starts   *)
(* with "copyright" and which hold exactly one ")"; the fragment is the    *)
(* trimmed text after that ")".  Lines with no ")" or with two or more     *)
(* contribute nothing.                                                     *)
(***************************************************************************)
CountOf(s, c) == Cardinality({i \in 1..Len(s) : s[i] = c})

IsCopyrightLine(line) ==
    LET t == strip(line) IN
    /\ Len(t) >= 9
    /\ \A i \in 1..9 : lowerChar(t[i]) = copyright_word[i]

HasOneParen(line) == CountOf(line, ")") = 1

AfterParen(line) ==
    LET p == CHOOSE i \in 1..Len(line) : line[i] = ")" IN
    strip([i \in 1..(Len(line) - p) |-> line[p + i]])

KeptLine(line) == IsCopyrightLine(line) /\ HasOneParen(line)

C9_CopyrightLines ==
    called = "parse_license_file_copyright_lines" =>
        LET kept == SelectSeq(readlines(input), KeptLine) IN
        /\ Len(ret) = Len(kept)
        /\ \A k \in 1..Len(kept) : ret[k] = AfterParen(kept[k])

\* Two fragments came back, in line order, and a copyright line with two ")"
\* was dropped.
C9_Witness ==
    /\ called = "parse_license_file_copyright_lines"
    /\ input = JaneDoeLine \o Newline \o TwoParenLine \o Newline
    /\ ret = << <<"2","0","2","0"," ","J","a","n","e"," ","D","o","e">> >>

(***************************************************************************)
(* C10: the derivation never returns both author_year and year.  With at   *)
(* least one fragment, author_year is the fragments joined with ", " and   *)
(* year is absent; with none, author_year is absent and year is the        *)
(* hyphen-joined year list of parse_copyright_years over the whole file    *)
(* when that list is non-empty and all valid, and absent otherwise; for a  *)
(* file that does not exist both are absent.                               *)
(***************************************************************************)
C10_AuthorYearOrYear ==
    called = "parse_project_author_year_and_project_year_from_license" =>
        /\ ~(ret[1] # None /\ ret[2] # None)
        /\ input = NoFile => ret = <<None, None>>
        /\ input # NoFile =>
            LET fragments == parse_license_file_copyright_lines(input)
                years == parse_copyright_years(input)
            IN IF Len(fragments) > 0
               THEN /\ ret[1] = join(<<",", " ">>, fragments)
                    /\ ret[2] = None
               ELSE /\ ret[1] = None
                    /\ ret[2] = IF Len(years[1]) > 0 /\ years[2]
                                THEN join(<<"-">>, years[1])
                                ELSE None

\* The fallback ran: no fragment, and two valid years joined by a hyphen.
C10_Witness ==
    /\ called = "parse_project_author_year_and_project_year_from_license"
    /\ input = ValidRangeLine
    /\ ret[1] = None
    /\ ret[2] = <<"2","0","1","9","-","2","0","2","1">>

(***************************************************************************)
(* The digit runs of a text, for the claims about parse_copyright_years.   *)
(***************************************************************************)
\* The maximal runs of digits of s from position i on, in order of
\* occurrence; first is the start of the run position i is in, or 0.
RECURSIVE DigitRuns(_, _, _)
DigitRuns(s, i, first) ==
    IF i > Len(s)
    THEN IF first > 0 THEN << [first |-> first, last |-> Len(s)] >> ELSE <<>>
    ELSE IF isdigit(s[i])
    THEN DigitRuns(s, i + 1, IF first > 0 THEN first ELSE i)
    ELSE (IF first > 0 THEN << [first |-> first, last |-> i - 1] >> ELSE <<>>)
         \o DigitRuns(s, i + 1, 0)

RunLen(r) == r.last - r.first + 1

RunTexts(s, runs) == [k \in 1..Len(runs) |-> SubSeq(s, runs[k].first, runs[k].last)]

RECURSIVE IsSubsequence(_, _)
IsSubsequence(a, b) ==
    IF a = <<>> THEN TRUE
    ELSE IF b = <<>> THEN FALSE
    ELSE IF Head(a) = Head(b) THEN IsSubsequence(Tail(a), Tail(b))
    ELSE IsSubsequence(a, Tail(b))

InRange(year) ==
    ~int_raises(year) /\ int(year) >= 1900 /\ int(year) <= CurrentYear

\* Run k is a valid 4-digit year with a run of more than 4 digits one
\* non-digit character before or after it.
YearNextToLongRun(runs, s, k) ==
    /\ RunLen(runs[k]) = 4
    /\ InRange(SubSeq(s, runs[k].first, runs[k].last))
    /\ \/ k > 1 /\ RunLen(runs[k - 1]) > 4
                /\ runs[k].first - runs[k - 1].last = 2
       \/ k < Len(runs) /\ RunLen(runs[k + 1]) > 4
                        /\ runs[k + 1].first - runs[k].last = 2

(***************************************************************************)
(* C11: no digit run longer than 4 characters contributes to the year      *)
(* list of parse_copyright_years: the list is drawn, in order, from the    *)
(* runs of at most 4 digits; and a valid 4-digit year separated by one     *)
(* non-digit from such a long run is in the list.                          *)
(***************************************************************************)
C11_LongRunsDoNotContribute ==
    called = "parse_copyright_years" =>
        LET runs == DigitRuns(input, 1, 0)
            Short(r) == RunLen(r) <= 4
        IN IsSubsequence(ret[1], RunTexts(input, SelectSeq(runs, Short)))

C11_LongRunsIgnoredYearKept ==
    /\ C11_LongRunsDoNotContribute
    /\ called = "parse_copyright_years" =>
        LET runs == DigitRuns(input, 1, 0) IN
        \A k \in 1..Len(runs) :
            YearNextToLongRun(runs, input, k) =>
                \E m \in 1..Len(ret[1]) :
                    ret[1][m] = SubSeq(input, runs[k].first, runs[k].last)

(***************************************************************************)
(* C12: parse_copyright_years returns all_years_valid = TRUE exactly when  *)
(* every year of the returned list lies in [1900, current year]; the list  *)
(* is returned whole either way: "Copyright 1899-2030 X" gives 1899 and    *)
(* 2030 with FALSE, "Copyright 2019-2021 X" gives 2019 and 2021 with TRUE. *)
(***************************************************************************)
C12_AllValidIffInRange ==
    called = "parse_copyright_years" =>
        /\ ret[2] = (\A k \in 1..Len(ret[1]) : InRange(ret[1][k]))
        /\ input = InvalidRangeLine =>
               ret = << << <<"1","8","9","9">>, <<"2","0","3","0">> >>, FALSE >>
        /\ input = ValidRangeLine =>
               ret = << << <<"2","0","1","9">>, <<"2","0","2","1">> >>, TRUE >>

(***************************************************************************)
(* C15: the year list of parse_copyright_years is exactly the sequence, in *)
(* order of occurrence, of the maximal digit runs of length 4 of the text, *)
(* the start and the end of the text counting as boundaries.               *)
(***************************************************************************)
C15_YearListIsFourDigitRuns ==
    called = "parse_copyright_years" =>
        LET runs == DigitRuns(input, 1, 0)
            Four(r) == RunLen(r) = 4
        IN ret[1] = RunTexts(input, SelectSeq(runs, Four))

(***************************************************************************)
(* The merge store: license_meta_file_dictionary, a dict from Path to      *)
(* Path | CopyrightMetadataFile.  A dict keeps its keys in the order of    *)
(* their first assignment.                                                 *)
(***************************************************************************)
CopyrightMetadataFile(name, author, license, year, author_year, copyright) ==
    [tag |-> "CopyrightMetadataFile",
     entry |-> [name |-> name, author |-> author, license |-> license,
                year |-> year, author_year |-> author_year,
                copyright |-> copyright]]

PathValue(path) == [tag |-> "Path", path |-> path]

HasKey(d, k) == \E i \in 1..Len(d) : d[i].key = k

IndexOfKey(d, k) == CHOOSE i \in 1..Len(d) : d[i].key = k

\* A faulty assignment that adds a second item for a key already present.
SetItemAppends(d, k, v) == Append(d, [key |-> k, val |-> v])

\* A faulty assignment that moves a key already present to the end.
SetItemMovesToEnd(d, k, v) ==
    Append(SelectSeq(d, LAMBDA item : item.key # k), [key |-> k, val |-> v])

\* d[k] = v
dict_setitem(d, k, v) ==
    IF HasKey(d, k)
    THEN [d EXCEPT ![IndexOfKey(d, k)].val = v]
    ELSE Append(d, [key |-> k, val |-> v])

\* What a stage has done so far: the dictionary, the assignments it made,
\* the diagnostics it logged and whether an exception left main().
Started(d) == [store |-> d, inserts |-> <<>>, log |-> <<>>, crashed |-> FALSE]

Put(st, k, v) ==
    [st EXCEPT !.store = dict_setitem(@, k, v),
               !.inserts = Append(@, [key |-> k, val |-> v])]

\* LOGGER.<level>(...): msg names the message, about its subject (a text or
\* a path).
Logged(st, level, msg, about) ==
    [st EXCEPT !.log = Append(@, [level |-> level, msg |-> msg, about |-> about])]

Raised(st) == [st EXCEPT !.crashed = TRUE]

HasLogged(l, level, msg, about) ==
    \E i \in 1..Len(l) :
        l[i].level = level /\ l[i].msg = msg /\ l[i].about = about

(***************************************************************************)
(* What the scanners report.                                               *)
(***************************************************************************)
cwd == << <<"p","r","o","j">> >>   \* Path.cwd()
node_modules == <<"n","o","d","e","_","m","o","d","u","l","e","s">>
site_packages == <<"s","i","t","e","-","p","a","c","k","a","g","e","s">>
LICENSE == <<"L","I","C","E","N","S","E">>
MIT == <<"M","I","T">>
ISC == <<"I","S","C">>

\* license-checker --json: package -> {licenses, publisher?, path, licenseFile?};
\* licenseFile is None when the key is missing, else the content of the file
\* at that path (NoFile when there is none).
NpmPackages ==
    { [name |-> <<"n","1">>, licenses |-> MIT, publisher |-> <<"A","n","n">>,
       path |-> cwd \o <<node_modules, <<"n","1">>>>, licenseFile |-> JaneDoeLine],
      [name |-> <<"n","2">>, licenses |-> ISC, publisher |-> None,
       path |-> cwd \o <<node_modules, <<"n","1">>>>, licenseFile |-> MitLine],
      [name |-> <<"n","3">>, licenses |-> MIT, publisher |-> None,
       path |-> cwd \o <<node_modules, <<"n","3">>>>, licenseFile |-> None],
      [name |-> <<"n","4">>, licenses |-> None, publisher |-> None,
       path |-> cwd \o <<node_modules, <<"n","4">>>>, licenseFile |-> NoFile] }

\* pip-licenses --format=json: a list of {Name, Author?, License, LicenseFile?};
\* LicenseFile.present tells whether the package has the key.
PipPackages ==
    { [Name |-> <<"p","1">>, Author |-> <<"B","o","b">>, License |-> MIT,
       LicenseFile |-> [present |-> TRUE,
                        path |-> << <<"v","e","n","v">>, site_packages,
                                    <<"p","1">>, LICENSE >>,
                        content |-> MitLine]],
      [Name |-> <<"p","2">>, Author |-> None, License |-> ISC,
       LicenseFile |-> [present |-> TRUE,
                        path |-> << <<"o","p","t">>, <<"p","2">>, LICENSE >>,
                        content |-> NoFile]],
      [Name |-> <<"p","3">>, Author |-> None, License |-> MIT,
       LicenseFile |-> [present |-> FALSE]] }

\* build/reports/dependency-license/report.json: {dependencies: [{moduleName,
\* moduleLicense?}]}
GradleDependencies ==
    { [moduleName |-> <<"x","1">>, moduleLicense |-> <<"A","p","a","c","h","e">>],
      [moduleName |-> <<"g","2">>, moduleLicense |-> None] }

\* "Copyright (c) Acme Copyright Holders"
AcmeCopyright ==
    Copyright_word \o <<" ","(","c",")"," ","A","c","m","e"," ">> \o Copyright_word
    \o <<" ","H","o","l","d","e","r","s">>

\* nuget-license -o jsonPretty: a list of {PackageId, Authors?, License?,
\* Copyright?}
NugetPackages ==
    { [PackageId |-> <<"x","1">>, Authors |-> <<"E","v","e">>, License |-> MIT,
       Copyright |-> AcmeCopyright],
      [PackageId |-> <<"u","2">>, Authors |-> None, License |-> ISC,
       Copyright |-> None],
      [PackageId |-> <<"u","3">>, Authors |-> None, License |-> None,
       Copyright |-> <<>>] }

\* The lists of at most n of the given items.
RECURSIVE ListsUpTo(_, _)
ListsUpTo(items, n) ==
    IF n = 0 THEN {<<>>}
    ELSE LET shorter == ListsUpTo(items, n - 1) IN
         shorter \cup {Append(l, x) : l \in shorter, x \in items}

\* A JSON object holds each package once.
NoRepeat(l) == \A i, j \in 1..Len(l) : i # j => l[i].name # l[j].name

\* What one scanner invocation produced: an exception of subprocess.run,
\* text on standard error, or standard output that is JSON or is not.
Run(kind, report) == [kind |-> kind, report |-> report]

Failures(kinds) == {Run(k, <<>>) : k \in kinds}

NpmRuns ==
    Failures({"raised", "stderr", "malformed_json"})
    \cup {Run("ok", r) : r \in {l \in ListsUpTo(NpmPackages, MaxPkgs) : NoRepeat(l)}}

PipRuns ==
    Failures({"stderr", "malformed_json"})
    \cup {Run("ok", r) : r \in ListsUpTo(PipPackages, MaxPkgs)}

GradleRuns ==
    Failures({"raised", "stderr", "no_report", "malformed_json", "no_dependencies"})
    \cup {Run("ok", r) : r \in ListsUpTo(GradleDependencies, MaxPkgs)}

NugetRuns ==
    Failures({"stderr", "malformed_json"})
    \cup {Run("ok", r) : r \in ListsUpTo(NugetPackages, MaxPkgs)}

(***************************************************************************)
(* The collectors.                                                         *)
(***************************************************************************)
\* removeprefix(str(Path.cwd())) and the loop that drops leading separators.
npm_key(path) ==
    IF Len(path) >= Len(cwd) /\ SubSeq(path, 1, Len(cwd)) = cwd
    THEN SubSeq(path, Len(cwd) + 1, Len(path))
    ELSE path

npm_entry(pkg) ==
    LET parsed == IF pkg.licenseFile # None
                  THEN parse_project_author_year_and_project_year_from_license(
                           pkg.licenseFile)
                  ELSE <<None, None>>
    IN CopyrightMetadataFile(pkg.name, pkg.publisher, pkg.licenses,
                             parsed[2], parsed[1], None)

RECURSIVE npm_items(_, _)
npm_items(st, items) ==
    IF items = <<>> THEN st
    ELSE LET pkg == Head(items) IN
         npm_items(IF pkg.licenses # None
                   THEN Put(st, npm_key(pkg.path), npm_entry(pkg))
                   ELSE Logged(st, "warning", "missing_license", pkg.name),
                   Tail(items))

\* The try block of the NPM handler and the check of ran_npx_successfully.
npm_handler(d, run) ==
    LET about == <<"npm">> IN
    CASE run.kind = "ok" -> npm_items(Started(d), run.report)
      [] run.kind = "stderr" ->
            Logged(Logged(Started(d), "error", "scanner_stderr", about),
                   "warning", "scanner_not_found", about)
      [] OTHER ->
            Logged(Logged(Started(d), "error", "exception", about),
                   "warning", "scanner_not_found", about)

\* Path("site-packages" + LicenseFile.split("site-packages")[-1])
RECURSIVE after_last(_, _)
after_last(path, segment) ==
    IF \E i \in 1..Len(path) : path[i] = segment
    THEN after_last(SubSeq(path, (CHOOSE i \in 1..Len(path) : path[i] = segment) + 1,
                           Len(path)), segment)
    ELSE path

pip_key(license_file_path) ==
    <<site_packages>> \o after_last(license_file_path, site_packages)

pip_entry(pkg) ==
    LET parsed == parse_project_author_year_and_project_year_from_license(
                      pkg.LicenseFile.content)
    IN CopyrightMetadataFile(pkg.Name, pkg.Author, pkg.License,
                             parsed[2], parsed[1], None)

\* project_dictionary["LicenseFile"] raises KeyError when the key is missing.
RECURSIVE pip_items(_, _)
pip_items(st, items) ==
    IF items = <<>> THEN st
    ELSE LET pkg == Head(items) IN
         IF ~pkg.LicenseFile.present THEN Raised(st)
         ELSE pip_items(Put(st, pip_key(pkg.LicenseFile.path), pip_entry(pkg)),
                        Tail(items))

\* One pass of the loop over the pip-licenses command lines; json.loads is
\* not inside a try block.
pip_command(st, run) ==
    CASE run.kind = "ok" -> pip_items(st, run.report)
      [] run.kind = "stderr" -> Logged(st, "error", "scanner_stderr", <<"pip">>)
      [] OTHER -> Raised(st)

gradle_entry(dependency) ==
    CopyrightMetadataFile(dependency.moduleName, None, dependency.moduleLicense,
                          None, None, None)

RECURSIVE gradle_items(_, _)
gradle_items(st, items) ==
    IF items = <<>> THEN st
    ELSE LET dependency == Head(items) IN
         gradle_items(IF dependency.moduleLicense # None
                      THEN Put(st, <<dependency.moduleName>>, gradle_entry(dependency))
                      ELSE Logged(st, "warning", "missing_license",
                                  dependency.moduleName),
                      Tail(items))

\* The try block of the Gradle handler and the check of ran_gradle_successfully.
gradle_handler(d, run) ==
    LET about == <<"gradle">> IN
    CASE run.kind = "ok" -> gradle_items(Started(d), run.report)
      [] run.kind = "no_dependencies" ->
            Logged(Started(d), "warning", "no_dependencies_key", about)
      [] run.kind = "malformed_json" ->
            Logged(Started(d), "error", "exception", about)
      [] run.kind = "no_report" ->
            Logged(Logged(Started(d), "warning", "report_not_found", about),
                   "warning", "scanner_not_found", about)
      [] run.kind = "stderr" ->
            Logged(Logged(Started(d), "error", "scanner_stderr", about),
                   "warning", "scanner_not_found", about)
      [] OTHER ->
            Logged(Logged(Started(d), "error", "exception", about),
                   "warning", "scanner_not_found", about)

\* The loop that keeps the characters from the first letter or digit on.
RECURSIVE from_first_alnum(_)
from_first_alnum(s) ==
    IF s = <<>> \/ isalpha(Head(s)) \/ isdigit(Head(s)) THEN s
    ELSE from_first_alnum(Tail(s))

nuget_copyright(text) == from_first_alnum(strip(replace(text, Copyright_word, <<>>)))

nuget_entry(pkg) ==
    CopyrightMetadataFile(pkg.PackageId, pkg.Authors, pkg.License, None, None,
                          IF pkg.Copyright # None
                          THEN nuget_copyright(pkg.Copyright)
                          ELSE None)

RECURSIVE nuget_items(_, _)
nuget_items(st, items) ==
    IF items = <<>> THEN st
    ELSE LET pkg == Head(items) IN
         nuget_items(IF pkg.License # None
                     THEN Put(st, <<pkg.PackageId>>, nuget_entry(pkg))
                     ELSE Logged(st, "warning", "missing_license", pkg.PackageId),
                     Tail(items))

\* The nuget-license handler; json.loads is not inside a try block.
nuget_handler(d, run) ==
    CASE run.kind = "ok" -> nuget_items(Started(d), run.report)
      [] run.kind = "stderr" ->
            Logged(Started(d), "error", "scanner_stderr", <<"nuget">>)
      [] OTHER -> Raised(Started(d))

(***************************************************************************)
(* Override files (.copyright_meta) and configparser.                      *)
(***************************************************************************)
METADATA_FILE_NAME ==
    <<".","c","o","p","y","r","i","g","h","t","_","m","e","t","a">>
LICENSE_URLS_SECTION_NAME == "license_urls"
LICENSE_FILE_NAME_START_WITH_LIST ==
    << <<"l","i","c","e","n","s","e">>, <<"l","i","c","e","n","c","e">> >>

\* The options whose value is not None, as a mapping from key to value.
Options(fields) == [k \in {f \in DOMAIN fields : fields[f] # None} |-> fields[k]]

\* An override file: header tells whether it begins with a section header,
\* options are the key = value lines of its first section and license_urls
\* the values of its [license_urls] section.
MetaFile(header, fields, license_urls) ==
    [exists |-> TRUE, header |-> header, options |-> Options(fields),
     license_urls |-> license_urls]

NoMetaFile == [exists |-> FALSE]

Section(name, options) == [name |-> name, options |-> options]

\* CopyrightMetadataFile.to_config
to_config(entry) == << Section("root", Options(entry)) >>

\* parse_copyright_meta_file: a file without a section header is read again
\* with "[root]" put before it.
parse_copyright_meta_file(file) ==
    << Section(IF file.header THEN "meta" ELSE "root", file.options) >>
    \o (IF file.license_urls # <<>>
        THEN << Section(LICENSE_URLS_SECTION_NAME, file.license_urls) >>
        ELSE <<>>)

has_option(config, section, option) == option \in DOMAIN config[section].options

config_get(config, section, option) == config[section].options[option]

optional(config, section, option) ==
    IF has_option(config, section, option)
    THEN config_get(config, section, option)
    ELSE None

\* The values of every section named license_urls, in file order.
RECURSIVE license_urls_of(_)
license_urls_of(config) ==
    IF config = <<>> THEN <<>>
    ELSE (IF Head(config).name = LICENSE_URLS_SECTION_NAME
          THEN Head(config).options
          ELSE <<>>) \o license_urls_of(Tail(config))

(***************************************************************************)
(* The thirdparty folder scanner.                                          *)
(***************************************************************************)
thirdparty == <<"t","h","i","r","d","p","a","r","t","y">>
ChildNames == << <<"a">>, <<"b">>, <<"c">> >>   \* in lexicographic order

\* sorted(thirdparty_folder_path.iterdir())
sorted_children(folders) ==
    LET InOrder == [i \in 1..Len(ChildNames) |-> <<thirdparty, ChildNames[i]>>]
    IN SelectSeq(InOrder, LAMBDA path : path \in folders)

\* The download a URL of license_urls leads to: the request fails, or it
\* answers with or without a filename in its Content-Disposition header.
Response(ok, filename) == [ok |-> ok, filename |-> filename]

fetch_file_name(url, response) ==
    IF response.filename # None THEN response.filename ELSE url.name

\* The downloads of the URLs, in order, up to the first one that fails.
RECURSIVE fetch_all(_, _, _)
fetch_all(urls, responses, fetched) ==
    IF urls = <<>> THEN [failed |-> FALSE, fetched |-> fetched]
    ELSE IF ~Head(responses).ok THEN [failed |-> TRUE, fetched |-> fetched]
    ELSE fetch_all(Tail(urls), Tail(responses),
                   Append(fetched, fetch_file_name(Head(urls), Head(responses))))

starts_with_license(file_name) ==
    \E i \in 1..Len(LICENSE_FILE_NAME_START_WITH_LIST) :
        startswith(lower(file_name), lower(LICENSE_FILE_NAME_START_WITH_LIST[i]))

\* A search that takes any directory entry for a license file.
AnyFileIsLicense(files) == files

\* The directory entries the search loop can end on.
license_file_candidates(files) == {f \in files : starts_with_license(f)}

\* A search that runs before the downloads.
SearchBeforeFetch(files, fetched) == files

\* The directory entries when the search loop runs.
files_at_search(files, fetched) ==
    files \cup {fetched[i] : i \in 1..Len(fetched)}

(***************************************************************************)
(* The Debian copyright serializer.                                        *)
(***************************************************************************)
Parent(path) == SubSeq(path, 1, Len(path) - 1)

unescape(text) == replace(text, EscapedNewline, Newline)

\* A serializer that always writes the prefix.
AlwaysPrefix(project_copyright) == CopyrightPrefix

copyright_prefix(project_copyright) ==
    IF startswith(project_copyright, CopyrightPrefix) THEN <<>> ELSE CopyrightPrefix

\* A serializer that leaves a missing author missing.
AuthorNotDefaulted(no_author, project_name, project_author) == project_author

\* project_author after the check for a missing author.
default_author(no_author, project_name, project_author) ==
    IF no_author THEN project_name ELSE project_author

\* A serializer that leaves the author out when there is a year.
AuthorOmittedAfterYear(project_year, project_author) ==
    CopyrightBare
    \o (IF project_year # None THEN <<" ">> \o project_year
        ELSE IF project_author # None THEN <<" ">> \o project_author ELSE <<>>)

\* The line written when neither copyright nor author_year is given.
year_author_line(project_year, project_author) ==
    CopyrightBare
    \o (IF project_year # None THEN <<" ">> \o project_year ELSE <<>>)
    \o (IF project_author # None THEN <<" ">> \o project_author ELSE <<>>)

\* One pass of the loop over license_meta_file_dictionary.items(): the stanza
\* written and the diagnostics logged.
stanza_of(license_file_path, config) ==
    LET first_section == 1
        project_name == config_get(config, first_section, "name")
        project_year == optional(config, first_section, "year")
        project_author_read == optional(config, first_section, "author")
        project_author_year == optional(config, first_section, "author_year")
        project_copyright == optional(config, first_section, "copyright")
        no_author == /\ project_copyright = None
                     /\ project_author_year = None
                     /\ project_author_read = None
        project_author == default_author(no_author, project_name, project_author_read)
        no_year_nor_author == /\ project_copyright = None
                              /\ project_author_year = None
                              /\ project_year = None
                              /\ project_author = None
        project_license == config_get(config, first_section, "license")
        copyright_line ==
            IF project_copyright # None
            THEN copyright_prefix(project_copyright) \o unescape(project_copyright)
            ELSE IF project_author_year # None
            THEN CopyrightPrefix \o unescape(project_author_year)
            ELSE year_author_line(project_year, project_author)
    IN [stanza |-> [license_file_path |-> license_file_path,
                    files |-> Parent(license_file_path),
                    comment |-> project_name,
                    copyright |-> copyright_line,
                    license |-> project_license],
        log |-> (IF no_author
                 THEN << [level |-> "warning", msg |-> "no_author",
                          about |-> project_name] >>
                 ELSE <<>>)
                \o (IF no_year_nor_author
                    THEN << [level |-> "warning", msg |-> "no_year_nor_author",
                             about |-> project_name] >>
                    ELSE <<>>)]

\* The config the serializer reads for one value of the dictionary.
config_of(folders, meta_file) ==
    IF meta_file.tag = "Path"
    THEN parse_copyright_meta_file(folders[Parent(meta_file.path)].meta)
    ELSE to_config(meta_file.entry)

rendered(folders, d) ==
    [i \in 1..Len(d) |-> stanza_of(d[i].key, config_of(folders, d[i].val))]

RECURSIVE logs_of(_)
logs_of(results) ==
    IF results = <<>> THEN <<>>
    ELSE Head(results).log \o logs_of(Tail(results))

(***************************************************************************)
(* The inputs of a run.                                                    *)
(***************************************************************************)
RequiredKeys ==
    {"source_url", "upstream_name", "upstream_contact_name",
     "upstream_contact_email", "thirdparty_folder_path"}

Collectors == {"npm", "pip", "gradle", "nuget"}

root == <<>>   \* Path()

licence_md == <<"l","i","c","e","n","c","e",".","m","d">>
README == <<"R","E","A","D","M","E">>
LICENCE == <<"L","I","C","E","N","C","E">>
notice_txt == <<"n","o","t","i","c","e",".","t","x","t">>

\* https://example.com/LICENSE.txt and https://example.com/mit.txt
UrlLicense == [name |-> <<"L","I","C","E","N","S","E",".","t","x","t">>]
UrlMit == [name |-> <<"m","i","t",".","t","x","t">>]

Responses ==
    { Response(FALSE, None), Response(TRUE, None),
      Response(TRUE, LICENCE), Response(TRUE, notice_txt) }

Fields(name, author, license, year, author_year, copyright) ==
    [name |-> name, author |-> author, license |-> license, year |-> year,
     author_year |-> author_year, copyright |-> copyright]

zlib == <<"z","l","i","b">>
Acme == <<"A","c","m","e">>
Year2020 == <<"2","0","2","0">>

PlainFields == Fields(zlib, Acme, MIT, Year2020, None, None)

Folder(meta, files) == [meta |-> meta, files |-> files]

\* The folders the scanner can meet.
FolderContents ==
    { Folder(NoMetaFile, {LICENSE}),
      Folder(MetaFile(FALSE, PlainFields, <<>>), {README}),
      Folder(MetaFile(FALSE, PlainFields, <<>>), {LICENSE, licence_md}),
      Folder(MetaFile(TRUE, PlainFields, <<UrlLicense>>), {}),
      Folder(MetaFile(FALSE, PlainFields, <<UrlMit>>), {README}),
      Folder(MetaFile(TRUE, PlainFields, <<UrlMit, UrlLicense>>), {}),
      Folder(MetaFile(FALSE, PlainFields, <<UrlMit>>), {LICENSE}) }

\* "Copyright: 2021 Acme", "2021 Acme", "(c) 2021\nAcme" with the line feed
\* escaped, "2019, Jane Doe"
PrefixedCopyright == CopyrightPrefix \o <<"2","0","2","1"," ","A","c","m","e">>
PlainCopyright == <<"2","0","2","1"," ","A","c","m","e">>
EscapedCopyright == <<"(","c",")"," ","2","0","2","1">> \o EscapedNewline \o Acme
JaneDoeAuthorYear == <<"2","0","1","9",","," ","J","a","n","e"," ","D","o","e">>
EscapedAuthorYear == <<"2","0","1","9">> \o EscapedNewline \o Acme

\* Override files with every combination of the optional fields.
RichMetaFiles ==
    { MetaFile(header, Fields(zlib, author, MIT, year, author_year, copyright), <<>>) :
        header \in BOOLEAN,
        author \in {None, Acme},
        year \in {None, Year2020},
        author_year \in {None, JaneDoeAuthorYear, EscapedAuthorYear},
        copyright \in {None, PrefixedCopyright, PlainCopyright, EscapedCopyright,
                       <<>>} }

ChildPaths == {<<thirdparty, ChildNames[i]>> : i \in 1..Len(ChildNames)}

\* The project folder and the thirdparty directory with at most MaxChildren
\* children; exists tells whether the thirdparty directory exists.
FileSystems(rootContents, childContents) ==
    { [exists |-> exists, folders |-> folders] :
        exists \in BOOLEAN,
        folders \in UNION { [ {root} \cup children -> rootContents \cup childContents] :
                            children \in {c \in SUBSET ChildPaths :
                                            Cardinality(c) <= MaxChildren} } }

\* A directory that has children exists, and each folder is one of its kind.
IsFileSystem(f, rootContents, childContents) ==
    /\ f.folders[root] \in rootContents
    /\ \A path \in DOMAIN f.folders \ {root} : f.folders[path] \in childContents
    /\ DOMAIN f.folders # {root} => f.exists

SimpleRoot == Folder(MetaFile(FALSE, PlainFields, <<>>), {LICENSE})

PipelineStart ==
    /\ pc = "declaration"
    /\ store = <<>>
    /\ insertLog = <<>>
    /\ stageLog = <<>>
    /\ log = <<>>
    /\ work = <<>>
    /\ scanLog = <<>>
    /\ out = NotWritten
    /\ input = NoFile
    /\ called = "none"
    /\ ret = None

\* A run with collectors: the project folder holds an override and a license.
CollectorInit ==
    /\ declaration = RequiredKeys
    /\ env \in {e \in SUBSET Collectors : Cardinality(e) <= MaxActive}
    /\ fs = [exists |-> FALSE, folders |-> [path \in {root} |-> SimpleRoot]]

\* A run over thirdparty folders of every kind, with no collector.
FolderInit ==
    /\ declaration = RequiredKeys
    /\ env = {}
    /\ fs \in {f \in FileSystems({SimpleRoot}, FolderContents) :
                IsFileSystem(f, {SimpleRoot}, FolderContents)}

\* A run over one override file with any combination of fields.
RichInit ==
    /\ declaration = RequiredKeys
    /\ env = {}
    /\ \E meta \in RichMetaFiles :
          fs = [exists |-> FALSE,
                folders |-> [path \in {root} |-> Folder(meta, {LICENSE})]]

\* A run whose project declaration file lacks a required key.
DeclarationInit ==
    /\ declaration \in {RequiredKeys \ {k} : k \in RequiredKeys}
    /\ env \in {{}, Collectors}
    /\ fs = [exists |-> FALSE, folders |-> [path \in {root} |-> SimpleRoot]]

Init ==
    /\ PipelineStart
    /\ (CollectorInit \/ FolderInit \/ RichInit \/ DeclarationInit)

(***************************************************************************)
(* main(), one action per stage.                                           *)
(***************************************************************************)
ParserUnchanged == UNCHANGED <<input, called, ret>>

StageEntry(stage, run, st) ==
    [stage |-> stage, outcome |-> run.kind, inserted |-> Len(st.inserts),
     crashed |-> st.crashed]

\* The effect of a collector stage that made the given scanner invocations.
Collected(st, entries, next) ==
    /\ store' = st.store
    /\ insertLog' = insertLog \o st.inserts
    /\ log' = log \o st.log
    /\ stageLog' = stageLog \o entries
    /\ pc' = IF st.crashed THEN "crashed" ELSE next
    /\ UNCHANGED <<declaration, env, fs, work, scanLog, out>>
    /\ ParserUnchanged

Skipped(next) ==
    /\ pc' = next
    /\ UNCHANGED <<declaration, env, fs, store, insertLog, stageLog, log, work,
                   scanLog, out>>
    /\ ParserUnchanged

\* Reading the project declaration file: config.get raises for a missing key.
\* A plausible slip: only the key the scanner needs is read up front.
OnlyFolderKeyRead(keys) == "thirdparty_folder_path" \in keys

\* The five copyright_config.get calls: each raises NoOptionError for a key
\* the first section lacks, and main() catches nothing.
declaration_complete(keys) == RequiredKeys \subseteq keys

ReadDeclaration ==
    /\ pc = "declaration"
    /\ IF declaration_complete(declaration)
       THEN /\ pc' = "npm"
            /\ log' = IF fs.exists THEN log
                      ELSE Append(log, [level |-> "warning",
                                        msg |-> "thirdparty_folder_missing",
                                        about |-> <<thirdparty>>])
       ELSE /\ pc' = "crashed"
            /\ log' = log
    /\ UNCHANGED <<declaration, env, fs, store, insertLog, stageLog, work,
                   scanLog, out>>
    /\ ParserUnchanged

Npm ==
    /\ pc = "npm"
    /\ \/ "npm" \notin env /\ Skipped("pip")
       \/ /\ "npm" \in env
          /\ \E run \in NpmRuns :
                LET st == npm_handler(store, run) IN
                Collected(st, <<StageEntry("npm", run, st)>>, "pip")

\* The loop over the command lines: the pipenv one, when there is a Pipfile,
\* and the plain one, which is run only when the first wrote to standard error.
Pip ==
    /\ pc = "pip"
    /\ \/ "pip" \notin env /\ Skipped("gradle")
       \/ /\ "pip" \in env
          /\ \E run \in PipRuns :
                LET st == pip_command(Started(store), run) IN
                Collected(st, <<StageEntry("pip", run, st)>>, "gradle")
       \/ /\ "pip" \in env
          /\ \E run \in PipRuns :
                LET first == pip_command(Started(store), Run("stderr", <<>>))
                    st == pip_command(first, run)
                IN Collected(st, <<StageEntry("pip", Run("stderr", <<>>), first),
                                   StageEntry("pip", run, st)>>,
                             "gradle")

Gradle ==
    /\ pc = "gradle"
    /\ \/ "gradle" \notin env /\ Skipped("nuget")
       \/ /\ "gradle" \in env
          /\ \E run \in GradleRuns :
                LET st == gradle_handler(store, run) IN
                Collected(st, <<StageEntry("gradle", run, st)>>, "nuget")

Nuget ==
    /\ pc = "nuget"
    /\ \/ "nuget" \notin env /\ Skipped("worklist")
       \/ /\ "nuget" \in env
          /\ \E run \in NugetRuns :
                LET st == nuget_handler(store, run) IN
                Collected(st, <<StageEntry("nuget", run, st)>>, "worklist")

\* folder_path_list: Path() and then the sorted children of the thirdparty
\* directory.
BuildWorkList ==
    /\ pc = "worklist"
    /\ work' = <<root>> \o (IF fs.exists
                            THEN sorted_children(DOMAIN fs.folders)
                            ELSE <<>>)
    /\ stageLog' = Append(stageLog, [stage |-> "scan", outcome |-> "ok",
                                     inserted |-> 0, crashed |-> FALSE])
    /\ pc' = "scan"
    /\ UNCHANGED <<declaration, env, fs, store, insertLog, log, scanLog, out>>
    /\ ParserUnchanged

\* A loop that takes the folders from the front of the list.
PopFirst(list) == 1

\* folder_path_list.pop(): the position of the item taken, the last one.
pop_position(list) == Len(list)

\* The list after the item at position i has been taken.
without_item(list, i) == SubSeq(list, 1, i - 1) \o SubSeq(list, i + 1, Len(list))

ScanEntry(folder, before, outcome, responses, fetched, inserts) ==
    [folder |-> folder, before |-> before, outcome |-> outcome,
     responses |-> responses, fetched |-> fetched, inserted |-> inserts]

AfterFolder(crashed) ==
    /\ work' = without_item(work, pop_position(work))
    /\ pc' = IF crashed THEN "crashed"
             ELSE IF Len(work) = 1 THEN "serialize" ELSE "scan"
    /\ UNCHANGED <<declaration, env, stageLog, out>>
    /\ ParserUnchanged

\* One pass of the loop over folder_path_list: folder_path_list.pop() and the
\* handling of that folder.  Every folder of the list exists: the project
\* folder, and what iterdir() has just listed.
ProcessFolder ==
    /\ pc = "scan" /\ work # <<>>
    /\ LET folder == work[pop_position(work)]
           content == fs.folders[folder]
           meta_file_path == folder \o <<METADATA_FILE_NAME>>
       IN
       \/ /\ ~content.meta.exists
          /\ log' = Append(log, [level |-> "error", msg |-> "no_meta_file",
                                 about |-> folder])
          /\ scanLog' = Append(scanLog, ScanEntry(folder, content.files, "no_meta_file",
                                                  <<>>, <<>>, <<>>))
          /\ UNCHANGED <<fs, store, insertLog>>
          /\ AfterFolder(FALSE)
       \/ /\ content.meta.exists
          /\ LET urls == license_urls_of(parse_copyright_meta_file(content.meta)) IN
             \E responses \in [1..Len(urls) -> Responses] :
                LET fetch == fetch_all(urls, responses, <<>>)
                    files == files_at_search(content.files, fetch.fetched)
                    candidates == license_file_candidates(files)
                IN
                /\ fs' = [fs EXCEPT !.folders[folder].files =
                              @ \cup {fetch.fetched[i] : i \in 1..Len(fetch.fetched)}]
                /\ \/ /\ fetch.failed
                      /\ scanLog' = Append(scanLog,
                             ScanEntry(folder, content.files, "fetch_failed",
                                       responses, fetch.fetched, <<>>))
                      /\ UNCHANGED <<store, insertLog, log>>
                      /\ AfterFolder(TRUE)
                   \/ /\ ~fetch.failed /\ candidates = {}
                      /\ log' = Append(log, [level |-> "error", msg |-> "no_license_file",
                                             about |-> folder])
                      /\ scanLog' = Append(scanLog,
                             ScanEntry(folder, content.files, "no_license_file",
                                       responses, fetch.fetched, <<>>))
                      /\ UNCHANGED <<store, insertLog>>
                      /\ AfterFolder(FALSE)
                   \/ /\ ~fetch.failed
                      /\ \E license_file \in candidates :
                            LET st == Put(Started(store), folder \o <<license_file>>,
                                          PathValue(meta_file_path))
                            IN /\ store' = st.store
                               /\ insertLog' = insertLog \o st.inserts
                               /\ scanLog' = Append(scanLog,
                                      ScanEntry(folder, content.files, "inserted",
                                                responses, fetch.fetched, st.inserts))
                      /\ UNCHANGED log
                      /\ AfterFolder(FALSE)

\* Writing the output file: the header and one stanza for every item.
Serialize ==
    /\ pc = "serialize"
    /\ LET results == rendered(fs.folders, store) IN
       /\ out' = [written |-> TRUE, header |-> declaration,
                  stanzas |-> [i \in 1..Len(results) |-> results[i].stanza]]
       /\ log' = log \o logs_of(results)
    /\ stageLog' = Append(stageLog, [stage |-> "serialize", outcome |-> "ok",
                                     inserted |-> 0, crashed |-> FALSE])
    /\ pc' = "done"
    /\ UNCHANGED <<declaration, env, fs, store, insertLog, work, scanLog>>
    /\ ParserUnchanged

Next ==
    \/ ReadDeclaration
    \/ Npm
    \/ Pip
    \/ Gradle
    \/ Nuget
    \/ BuildWorkList
    \/ ProcessFolder
    \/ Serialize

Spec == Init /\ [][Next]_vars

(***************************************************************************)
(* What the claims speak of.                                               *)
(***************************************************************************)
Written == out.written

\* The fields an item of the dictionary holds: those of the override file it
\* refers to, or those of the inline entry that are not None.
FieldsOf(val) ==
    IF val.tag = "Path"
    THEN fs.folders[Parent(val.path)].meta.options
    ELSE [k \in {f \in DOMAIN val.entry : val.entry[f] # None} |-> val.entry[k]]

Present(fields, key) == key \in DOMAIN fields

\* The value of the last assignment to the key.
LastValue(key) ==
    insertLog[CHOOSE i \in 1..Len(insertLog) :
                 /\ insertLog[i].key = key
                 /\ \A j \in (i + 1)..Len(insertLog) : insertLog[j].key # key].val

InsertedKeys == {insertLog[i].key : i \in 1..Len(insertLog)}

\* The keys in the order of their first assignment.
RECURSIVE FirstOccurrences(_)
FirstOccurrences(keys) ==
    IF keys = <<>> THEN <<>>
    ELSE LET front == SubSeq(keys, 1, Len(keys) - 1)
             last == keys[Len(keys)]
         IN IF \E i \in 1..Len(front) : front[i] = last
            THEN FirstOccurrences(front)
            ELSE Append(FirstOccurrences(front), last)

IsLicenseName(file_name) ==
    /\ Len(file_name) >= 7
    /\ [i \in 1..7 |-> lowerChar(file_name[i])]
          \in { <<"l","i","c","e","n","s","e">>, <<"l","i","c","e","n","c","e">> }

StageRank(stage) ==
    CASE stage = "npm" -> 1
      [] stage = "pip" -> 2
      [] stage = "gradle" -> 3
      [] stage = "nuget" -> 4
      [] stage = "scan" -> 5
      [] stage = "serialize" -> 6

(***************************************************************************)
(* C1: the Copyright line of every stanza follows the precedence of the    *)
(* fields present: the copyright field, unescaped, with "Copyright: " put  *)
(* before it only when it does not start with it already; else the         *)
(* author_year field, unescaped, after "Copyright: "; else, with year and  *)
(* author both present, "Copyright: <year> <author>".                      *)
(***************************************************************************)
C1_CopyrightPrecedence ==
    pc = "done" =>
        \A j \in 1..Len(out.stanzas) :
            LET fields == FieldsOf(store[j].val)
                line == out.stanzas[j].copyright
            IN IF Present(fields, "copyright")
               THEN /\ line = IF startswith(fields.copyright, CopyrightPrefix)
                              THEN unescape(fields.copyright)
                              ELSE CopyrightPrefix \o unescape(fields.copyright)
                    /\ fields.copyright = PrefixedCopyright => line = PrefixedCopyright
               ELSE IF Present(fields, "author_year")
               THEN line = CopyrightPrefix \o unescape(fields.author_year)
               ELSE Present(fields, "year") /\ Present(fields, "author") =>
                        line = CopyrightPrefix \o fields.year \o <<" ">> \o fields.author

\* An override with copyright = Copyright: 2021 Acme and with author_year,
\* year and author as well was written as exactly "Copyright: 2021 Acme".
C1_Witness ==
    /\ pc = "done"
    /\ \E j \in 1..Len(out.stanzas) :
          LET fields == FieldsOf(store[j].val) IN
          /\ Present(fields, "copyright") /\ fields.copyright = PrefixedCopyright
          /\ Present(fields, "author_year") /\ Present(fields, "year")
          /\ Present(fields, "author")
          /\ out.stanzas[j].copyright = PrefixedCopyright

(***************************************************************************)
(* C2 as stated: an entry with none of copyright, author_year, author and  *)
(* year is written with the bare line "Copyright:" and both the            *)
(* missing-author and the missing-dates diagnostic are logged for it.      *)
(***************************************************************************)
NoDatingFields(fields) ==
    \A key \in {"copyright", "author_year", "author", "year"} : ~Present(fields, key)

C3_OneStanzaPerKeyLatestValue ==
    /\ \A key \in InsertedKeys :
          /\ Cardinality({j \in 1..Len(store) : store[j].key = key}) = 1
          /\ store[IndexOfKey(store, key)].val = LastValue(key)
    /\ Len(store) = Cardinality(InsertedKeys)
    /\ pc = "done" =>
          /\ Len(out.stanzas) = Cardinality(InsertedKeys)
          /\ \A key \in InsertedKeys :
                /\ Cardinality({j \in 1..Len(out.stanzas) :
                        out.stanzas[j].license_file_path = key}) = 1
                /\ \E j \in 1..Len(out.stanzas) :
                      out.stanzas[j] =
                          stanza_of(key, config_of(fs.folders, LastValue(key))).stanza

\* A key path was assigned twice with different values and the manifest was
\* written.
C3_Witness ==
    /\ pc = "done"
    /\ \E i, j \in 1..Len(insertLog) :
          /\ i < j
          /\ insertLog[i].key = insertLog[j].key
          /\ insertLog[i].val.entry.name # insertLog[j].val.entry.name

(***************************************************************************)
(* C4: the stages run in the order npm, pip, Gradle, NuGet, folder scan,   *)
(* serialization; the manifest is written only after the folder scan has   *)
(* emptied its work list; and the stanzas appear in the order in which     *)
(* their key paths were first assigned.                                    *)
(***************************************************************************)
C4_StageAndStanzaOrder ==
    /\ \A i, j \in 1..Len(stageLog) :
          i < j => /\ StageRank(stageLog[i].stage) <= StageRank(stageLog[j].stage)
                   /\ stageLog[j].stage # "pip" =>
                         StageRank(stageLog[i].stage) < StageRank(stageLog[j].stage)
    /\ scanLog # <<>> => \E i \in 1..Len(stageLog) : stageLog[i].stage = "scan"
    /\ Written =>
          /\ pc = "done" /\ work = <<>>
          /\ stageLog[Len(stageLog)].stage = "serialize"
          /\ \E i \in 1..Len(stageLog) : stageLog[i].stage = "scan"
          /\ [j \in 1..Len(out.stanzas) |-> out.stanzas[j].license_file_path]
                = FirstOccurrences([i \in 1..Len(insertLog) |-> insertLog[i].key])

\* A key path was assigned again after another key path had been assigned,
\* and the manifest was written.
C4_Witness ==
    /\ pc = "done"
    /\ \E i, j, k \in 1..Len(insertLog) :
          /\ i < j /\ j < k
          /\ insertLog[i].key = insertLog[k].key
          /\ insertLog[j].key # insertLog[i].key

(***************************************************************************)
(* C5: when a scanner invocation of any collector yields text on standard  *)
(* error or malformed JSON, an error is logged, the invocation adds no     *)
(* entry and the run goes on.                                              *)
(***************************************************************************)
C5_ScannerFailureTolerated ==
    \A i \in 1..Len(stageLog) :
        stageLog[i].outcome \in {"stderr", "malformed_json"} =>
            /\ stageLog[i].inserted = 0
            /\ ~stageLog[i].crashed
            /\ \/ HasLogged(log, "error", "scanner_stderr", <<stageLog[i].stage>>)
               \/ HasLogged(log, "error", "exception", <<stageLog[i].stage>>)

(***************************************************************************)
(* C6: a failed download of a license URL abandons only the handling of    *)
(* that override; the run is not aborted.                                  *)
(***************************************************************************)
C6_FetchFailureTolerated ==
    \A i \in 1..Len(scanLog) :
        scanLog[i].outcome = "fetch_failed" => pc # "crashed"

(***************************************************************************)
(* C7: for each folder the scanner has handled (its downloads, if any,     *)
(* having succeeded): without an override file an error is logged and no   *)
(* entry is added; with an override file but no license file in the folder *)
(* an error is logged and no entry is added; otherwise exactly one entry   *)
(* is added, keyed by the path of a license file of the folder, whose      *)
(* value is the path of the override file.                                 *)
(***************************************************************************)
C7_FolderOutcome ==
    \A i \in 1..Len(scanLog) :
        LET e == scanLog[i]
            content == fs.folders[e.folder]
            licenses == {f \in content.files : IsLicenseName(f)}
        IN e.outcome # "fetch_failed" =>
            IF ~content.meta.exists
            THEN /\ e.inserted = <<>>
                 /\ HasLogged(log, "error", "no_meta_file", e.folder)
            ELSE IF licenses = {}
            THEN /\ e.inserted = <<>>
                 /\ HasLogged(log, "error", "no_license_file", e.folder)
            ELSE /\ Len(e.inserted) = 1
                 /\ \E f \in licenses : e.inserted[1].key = e.folder \o <<f>>
                 /\ e.inserted[1].val.tag = "Path"
                 /\ e.inserted[1].val.path = e.folder \o <<METADATA_FILE_NAME>>
                 /\ HasKey(store, e.inserted[1].key)

\* The scanner has met a folder of each kind.
C7_Witness ==
    /\ \E i \in 1..Len(scanLog) : scanLog[i].outcome = "no_meta_file"
    /\ \E i \in 1..Len(scanLog) : scanLog[i].outcome = "no_license_file"
    /\ \E i \in 1..Len(scanLog) :
          /\ scanLog[i].outcome = "inserted"
          /\ Len(scanLog[i].inserted) = 1

(***************************************************************************)
(* C8 as stated: for a folder whose override names one license URL and     *)
(* which holds no license file beforehand, after the folder is handled a   *)
(* license file exists in it and the dictionary holds an entry keyed to    *)
(* it.                                                                     *)
(***************************************************************************)
OneUrlNoLicense(e) ==
    LET meta == fs.folders[e.folder].meta IN
    /\ meta.exists
    /\ Len(meta.license_urls) = 1
    /\ \A f \in e.before : ~IsLicenseName(f)
    /\ e.outcome # "fetch_failed"

C13_MissingKeyAbortsBeforeCollection ==
    ~(RequiredKeys \subseteq declaration) =>
        /\ pc \in {"declaration", "crashed"}
        /\ stageLog = <<>>
        /\ scanLog = <<>>
        /\ insertLog = <<>>
        /\ store = <<>>
        /\ ~Written

\* The run has ended on a declaration that lacks a key, with every collector
\* applicable and a folder the scanner would have accepted.
C13_Witness ==
    /\ pc = "crashed"
    /\ ~(RequiredKeys \subseteq declaration)
    /\ env = Collectors
    /\ stageLog = <<>>

(***************************************************************************)
(* C14 as stated: the name is substituted for the author, and the          *)
(* missing-author diagnostic logged, only when author, author_year and     *)
(* year are all absent: an entry with year present and copyright,          *)
(* author_year and author absent is written as "Copyright: <year>".        *)
(***************************************************************************)
NoAuthorFields(fields) ==
    \A key \in {"copyright", "author_year", "author"} : ~Present(fields, key)

C14_NameSubstitutedOnlyWithoutYear ==
    pc = "done" =>
        \A j \in 1..Len(out.stanzas) :
            LET fields == FieldsOf(store[j].val) IN
            NoAuthorFields(fields) =>
                out.stanzas[j].copyright =
                    IF Present(fields, "year")
                    THEN CopyrightPrefix \o fields.year
                    ELSE CopyrightPrefix \o fields.name

(***************************************************************************)
(* C14 as amended: the name is substituted for the author, and the         *)
(* missing-author diagnostic logged, whenever copyright, author_year and   *)
(* author are all absent, with or without a year: such an entry with a     *)
(* year is written as "Copyright: <year> <name>", without one as           *)
(* "Copyright: <name>".  An entry with an author and neither copyright nor *)
(* author_year is written with its own author, and the diagnostic is       *)
(* logged for no name but those of entries that lack the three fields.     *)
(***************************************************************************)
C14_NameSubstitutedWithOrWithoutYear ==
    pc = "done" =>
        /\ \A j \in 1..Len(out.stanzas) :
              LET fields == FieldsOf(store[j].val)
                  line == out.stanzas[j].copyright
              IN /\ NoAuthorFields(fields) =>
                       /\ line = IF Present(fields, "year")
                                 THEN CopyrightPrefix \o fields.year \o <<" ">> \o fields.name
                                 ELSE CopyrightPrefix \o fields.name
                       /\ HasLogged(log, "warning", "no_author", fields.name)
                 /\ (/\ Present(fields, "author")
                     /\ ~Present(fields, "copyright")
                     /\ ~Present(fields, "author_year")) =>
                       line = IF Present(fields, "year")
                              THEN CopyrightPrefix \o fields.year \o <<" ">> \o fields.author
                              ELSE CopyrightPrefix \o fields.author
        /\ \A k \in 1..Len(log) :
              log[k].msg = "no_author" =>
                  \E j \in 1..Len(store) :
                      /\ FieldsOf(store[j].val).name = log[k].about
                      /\ NoAuthorFields(FieldsOf(store[j].val))

\* An entry with a year and no author was written with its name after the year.
C14_Witness ==
    /\ pc = "done"
    /\ \E j \in 1..Len(out.stanzas) :
          LET fields == FieldsOf(store[j].val) IN
          /\ NoAuthorFields(fields)
          /\ Present(fields, "year")
          /\ out.stanzas[j].copyright =
                 CopyrightPrefix \o fields.year \o <<" ">> \o fields.name
          /\ HasLogged(log, "warning", "no_author", fields.name)

(***************************************************************************)
(* C16: the work list of the folder scanner is the project root followed   *)
(* by the immediate children of the thirdparty directory in lexicographic  *)
(* order, and it is consumed from the end: at every moment the folders     *)
(* still listed, followed by the folders handled so far from the latest to *)
(* the earliest, are that list.  So the children are handled in descending *)
(* order, then the root, none twice; and the loop is left with the list    *)
(* empty, every folder handled once.                                       *)
(***************************************************************************)
CharRank(c) == CHOOSE i \in 1..Len(LowerCase) : LowerCase[i] = c

RECURSIVE LexLess(_, _)
LexLess(a, b) ==
    IF b = <<>> THEN FALSE
    ELSE IF a = <<>> THEN TRUE
    ELSE IF Head(a) = Head(b) THEN LexLess(Tail(a), Tail(b))
    ELSE CharRank(Head(a)) < CharRank(Head(b))

Reversed(list) == [i \in 1..Len(list) |-> list[Len(list) + 1 - i]]

ScanStarted == \E i \in 1..Len(stageLog) : stageLog[i].stage = "scan"

RECURSIVE DropLeadingNonAlnum(_)
DropLeadingNonAlnum(s) ==
    IF s = <<>> \/ isalpha(Head(s)) \/ isdigit(Head(s)) THEN s
    ELSE DropLeadingNonAlnum(Tail(s))

LeadingCopyrightCleaned(text) ==
    DropLeadingNonAlnum(IF startswith(text, Copyright_word)
                        THEN SubSeq(text, Len(Copyright_word) + 1, Len(text))
                        ELSE text)

C17_OnlyLeadingCopyrightRemoved ==
    /\ \A i \in 1..Len(insertLog) :
          LET val == insertLog[i].val IN
          (val.tag = "CopyrightMetadataFile" /\ val.entry.copyright # None) =>
              \E pkg \in NugetPackages :
                  /\ pkg.PackageId = val.entry.name
                  /\ pkg.License # None /\ pkg.Copyright # None
                  /\ val.entry.copyright = LeadingCopyrightCleaned(pkg.Copyright)
    /\ \A k \in 1..Len(log) :
          log[k].msg = "missing_license" =>
              /\ log[k].level = "warning"
              /\ \A i \in 1..Len(insertLog) : insertLog[i].key # <<log[k].about>>

=============================================================================
